---------------------------- MODULE Spec2Model ----------------------------
(***************************************************************************)
(* ActionNoiseWrapper (dm_env_wrappers/_src/action_noise.py): a wrapper    *)
(* that adds Gaussian noise to the bounded leaves of a nested action,      *)
(* clips them into range and forwards the action to the wrapped            *)
(* environment.                                                            *)
(*                                                                         *)
(* Numbers are integers (fixed point).  A one-dimensional ndarray of an    *)
(* action is a sequence of integers.  The minimum, the maximum and the     *)
(* noise are ndarrays that may be 0-d: [shape |-> <<>> or <<m>>, data].    *)
(* A RandomState is an object of the heap rng, named by an identity; its   *)
(* state is [seed, pos]: the seed it was built from and the number of      *)
(* samples drawn so far.                                                   *)
(***************************************************************************)
EXTENDS Integers, Sequences, FiniteSets, TLC

\* ------------------------------------------------------------ bounds
MaxSteps == 2
MaxLeaves == 2
MaxElems == 2
MaxBound == 2
MaxSeed == 1
MaxScale == 1
MaxZ == 1

Injectors == {1, 2}
Seeds == 0..MaxSeed
Scales == -1..MaxScale
Shapes == 1..MaxElems
Vals == {-1, 0, MaxBound + 1}

\* ------------------------------------------------------------ numpy
Min2(a, b) == IF a <= b THEN a ELSE b
Max2(a, b) == IF a >= b THEN a ELSE b

Scalar(x) == [shape |-> <<>>, data |-> <<x>>]
Full(n, x) == [shape |-> <<n>>, data |-> [k \in 1..n |-> x]]
NoArray == [shape |-> <<>>, data |-> <<>>]
Size(arr) == Len(arr.data)

\* Element k of arr seen through broadcasting: a one-element array repeats.
At(arr, k) == IF Size(arr) = 1 THEN arr.data[1] ELSE arr.data[k]

\* spec.maximum - spec.minimum, of the broadcast shape of the two.
Subtract(hi, lo) ==
  LET big == IF Size(hi) >= Size(lo) THEN hi ELSE lo
  IN  [shape |-> IF hi.shape = <<>> THEN lo.shape ELSE
                 IF lo.shape = <<>> THEN hi.shape ELSE big.shape,
       data |-> [k \in 1..Size(big) |-> At(hi, k) - At(lo, k)]]

Times(scale, arr) ==
  [shape |-> arr.shape, data |-> [k \in 1..Size(arr) |-> scale * arr.data[k]]]

\* The standard normal sample number pos of the stream seeded with seed:
\* a fixed function of the two, as the Mersenne Twister's output is.
Gauss(seed, pos) ==
  (((2 * seed + 1) * (pos + 1) + (pos * pos) \div 2 + 1) % (2 * MaxZ + 1))
    - MaxZ

RandomState(seed) == [seed |-> seed, pos |-> 0]

\* random_state.normal(scale=stddev): one sample per element of stddev (a
\* single one when stddev is 0-d), of the shape of stddev; the generator
\* advances by that many draws.
normal(g, stddev) ==
  [samples |-> [shape |-> stddev.shape,
                data |-> [j \in 1..Size(stddev) |->
                            stddev.data[j] * Gauss(g.seed, g.pos + j - 1)]],
   state |-> [seed |-> g.seed, pos |-> g.pos + Size(stddev)]]

\* Whether an operand of this shape broadcasts into an output of n elements
\* (action += operand, np.clip(..., out=action)).
BroadcastsTo(shape, n) == shape = <<>> \/ shape[1] = n \/ shape[1] = 1

iadd(action, noise) == [k \in 1..Len(action) |-> action[k] + At(noise, k)]

ClipNoMinimum(action, lo, hi) ==
  [k \in 1..Len(action) |-> Min2(action[k], At(hi, k))]

clip(action, lo, hi) ==
  [k \in 1..Len(action) |-> Min2(Max2(action[k], At(lo, k)), At(hi, k))]

\* ------------------------------------------------------------ specs
Array(n) ==
  [bounded |-> FALSE, shape |-> n, minimum |-> NoArray, maximum |-> NoArray]
BoundedArray(n, lo, hi) ==
  [bounded |-> TRUE, shape |-> n, minimum |-> lo, maximum |-> hi]

\* The ranges explored, <<minimum, maximum>>: no range at all, the full
\* range, and a range that does not start at 0.
Ranges == {<<0, 0>>, <<0, MaxBound>>, <<1, MaxBound>>}

\* The leaves of the action specifications explored: an unbounded leaf,
\* bounded leaves of several elements with 0-d bounds, and bounded leaves
\* with one bound per element, the same for every element or with a range
\* for the first element only.  minimum <= maximum elementwise.
LeafSpecs ==
  {Array(1)}
  \cup {BoundedArray(n, Scalar(r[1]), Scalar(r[2])) :
          n \in Shapes \ {1}, r \in Ranges}
  \cup {BoundedArray(n, Full(n, r[1]), Full(n, r[2])) :
          n \in Shapes, r \in Ranges}
  \cup {BoundedArray(n, Full(n, 0),
                     [shape |-> <<n>>,
                      data |-> [k \in 1..n |-> IF k = 1 THEN MaxBound ELSE 0]]) :
          n \in Shapes \ {1}}

UnitLeaf == BoundedArray(1, Full(1, 0), Full(1, MaxBound))

\* The action specifications explored: tuples of 1..MaxLeaves leaves, one
\* of them any leaf of LeafSpecs, the others one-element leaves of the full
\* range.
ActionSpecs ==
  UNION {{[k \in 1..L |-> IF k = p THEN leaf ELSE UnitLeaf] :
            p \in 1..L, leaf \in LeafSpecs} : L \in 1..MaxLeaves}

Const(n, v) == [k \in 1..n |-> v]

\* Actions a caller passes for the specification S: the ones of its
\* structure (below, at and above the bounds), and ones that miss a leaf,
\* carry an extra leaf, or hold a leaf of another shape.
Base(S, v) == [k \in 1..Len(S) |-> Const(S[k].shape, v)]
Conforming(S) == {Base(S, v) : v \in Vals}
OtherShape(n) == (n % MaxElems) + 1
Deformed(S) ==
  {SubSeq(Base(S, -1), 1, Len(S) - 1), Append(Base(S, -1), Const(1, -1))}
  \cup {[Base(S, -1) EXCEPT ![k] = Const(OtherShape(S[k].shape), -1)] :
          k \in 1..Len(S)}
ActionsFor(S) == Conforming(S) \cup Deformed(S)

\* ------------------------------------------------------------ corruption
NoNoise == NoArray

\* As _corrupt_action, with the noise added before the spec's type is looked at.
CorruptAnyLeaf(action, spec, scale, g) ==
  LET d == normal(g, IF spec.bounded
                     THEN Times(scale, Subtract(spec.maximum, spec.minimum))
                     ELSE Scalar(scale))
      noisy == iadd(action, d.samples)
  IN  IF ~BroadcastsTo(d.samples.shape, Len(action))
      THEN [ok |-> FALSE, g |-> d.state, noise |-> d.samples, action |-> action]
      ELSE [ok |-> TRUE, g |-> d.state, noise |-> d.samples,
            action |-> IF spec.bounded
                       THEN clip(noisy, spec.minimum, spec.maximum)
                       ELSE noisy]

\* _corrupt_action(action, spec): the leaf after the call, the generator
\* after the call, the noise drawn, and whether numpy raised (the operands
\* of += do not broadcast; the sample is drawn before that).
_corrupt_action(action, spec, scale, g) ==
  IF spec.bounded
  THEN LET noise_stddev == Times(scale, Subtract(spec.maximum, spec.minimum))
           d == normal(g, noise_stddev)
       IN  IF BroadcastsTo(d.samples.shape, Len(action))
           THEN [ok |-> TRUE, g |-> d.state, noise |-> d.samples,
                 action |-> clip(iadd(action, d.samples),
                                 spec.minimum, spec.maximum)]
           ELSE [ok |-> FALSE, g |-> d.state, noise |-> d.samples,
                 action |-> action]
  ELSE [ok |-> TRUE, g |-> g, noise |-> NoNoise, action |-> action]

SameStructureUnchecked(nested_action, nested_spec) == TRUE

\* tree.assert_same_structure on two tuples of leaves.
SameStructure(nested_action, nested_spec) ==
  Len(nested_action) = Len(nested_spec)

\* [func(*args) for args in zip(flatten(action), flatten(spec))], from leaf
\* k on: leaves are visited in order and an exception stops the visit, the
\* leaves already visited staying as corrupted (they are corrupted in place).
RECURSIVE MapLeaves(_, _, _, _, _, _)
MapLeaves(k, nested_action, nested_spec, scale, g, noises) ==
  IF k > Min2(Len(nested_action), Len(nested_spec))
  THEN [status |-> "ok", action |-> nested_action, g |-> g, noise |-> noises]
  ELSE LET r == _corrupt_action(nested_action[k], nested_spec[k], scale, g)
           acted == [nested_action EXCEPT ![k] = r.action]
       IN  IF r.ok
           THEN MapLeaves(k + 1, acted, nested_spec, scale, r.g,
                          Append(noises, r.noise))
           ELSE [status |-> "ShapeMismatch", action |-> acted, g |-> r.g,
                 noise |-> Append(noises, r.noise)]

_corrupt_nested_action(nested_action, nested_spec, scale, random_state) ==
  IF ~SameStructure(nested_action, nested_spec)
  THEN [status |-> "StructureMismatch", action |-> nested_action,
        g |-> random_state, noise |-> <<>>]
  ELSE MapLeaves(1, nested_action, nested_spec, scale, random_state, <<>>)


\* ------------------------------------------------------------ state
VARIABLES
  environment,     \* the wrapped environment: action_spec() and attributes
  rng,             \* the heap of RandomState objects: identity -> state
  ctor,            \* per injector: "none", "ok" or the exception of __init__
  ctor_args,       \* per injector: the arguments __init__ was called with
  _scale,          \* self._scale
  _action_spec,    \* self._action_spec
  _random_state,   \* self._random_state: the identity of a RandomState
  nsteps,          \* per injector: calls of step so far
  arg,             \* the action as it was when the last step was called
  buf,             \* the caller's action buffer after the last step
  out,             \* the last step: "none", "ok" or the exception raised
  delivered,       \* the actions the wrapped environment's step received
  noise            \* the last step: the noise drawn for each leaf visited

obj == <<ctor, ctor_args, _scale, _action_spec, _random_state>>
call == <<nsteps, arg, buf, out, delivered, noise>>
vars == <<environment, rng, obj, call>>

Absent == "absent"
NotRandomState == "not_a_RandomState"
NoRef == "None"
Own(i) == IF i = 1 THEN "own1" ELSE "own2"

\* The random_state argument: None, an int, or a RandomState instance.
ArgNone == [kind |-> "None", seed |-> 0, ref |-> NoRef]
ArgInt(s) == [kind |-> "int", seed |-> s, ref |-> NoRef]
ArgInstance(id) == [kind |-> "RandomState", seed |-> 0, ref |-> id]
RandomStateArgs == {ArgNone, ArgInstance("caller")} \cup {ArgInt(s) : s \in Seeds}

Environment(spec, has_task, task_random, random_state) ==
  [action_spec |-> spec, has_task |-> has_task,
   task_random |-> task_random, random_state |-> random_state]

\* ------------------------------------------------------------ __init__
Fresh == [how |-> "fresh", seed |-> 0, ref |-> NoRef]
Seeded(s) == [how |-> "seeded", seed |-> s, ref |-> NoRef]
Shared(id) == [how |-> "shared", seed |-> 0, ref |-> id]

\* hasattr(environment, "task") is false: a new RandomState(), whatever
\* else the environment has.
ResolveNoTask(env) == Fresh

\* environment.task.random, else environment.random_state, else a new one.
ResolveEnvFirst(env) ==
  IF env.random_state # Absent THEN Shared(env.random_state)
  ELSE IF env.task_random # Absent THEN Shared(env.task_random)
  ELSE Fresh

ResolveTask(env) ==
  IF env.task_random # Absent THEN Shared(env.task_random)
  ELSE IF env.random_state # Absent THEN Shared(env.random_state)
  ELSE Fresh

ResolveIntAsNone(seed) == Fresh

\* isinstance(random_state, int): np.random.RandomState(random_state).
ResolveInt(seed) == Seeded(seed)

\* Lines 35-53: where self._random_state comes from.
Resolve(env, random_state) ==
  IF random_state.kind = "None"
  THEN IF ~env.has_task THEN ResolveNoTask(env) ELSE ResolveTask(env)
  ELSE IF random_state.kind = "int"
       THEN ResolveInt(random_state.seed)
       ELSE Shared(random_state.ref)

RejectsZeroToo(scale) == scale <= 0

\* if scale < 0: raise ValueError
Rejects(scale) == scale < 0

\* The seeds a new RandomState of this resolution may start from: the one
\* given, or any (an unseeded one is seeded from the system's entropy).
StartSeeds(r) ==
  IF r.how = "fresh" THEN Seeds ELSE IF r.how = "seeded" THEN {r.seed} ELSE {0}

\* __init__ for injector i, on the heap `heap`: the exception or "ok", the
\* attributes set and the heap after it.
init(i, env, scale, random_state, start, heap) ==
  LET r == Resolve(env, random_state)
  IN  IF Rejects(scale)
      THEN [ctor |-> "ValueError", scale |-> 0, ref |-> NoRef, heap |-> heap]
      ELSE IF r.how = "shared"
           THEN IF r.ref = NotRandomState
                THEN [ctor |-> "AssertionError", scale |-> 0, ref |-> NoRef,
                      heap |-> heap]
                ELSE [ctor |-> "ok", scale |-> scale, ref |-> r.ref,
                      heap |-> heap]
           ELSE [ctor |-> "ok", scale |-> scale, ref |-> Own(i),
                 heap |-> (Own(i) :> RandomState(start)) @@ heap]

Construct(i, scale, random_state) ==
  /\ ctor[i] = "none"
  /\ \E start \in StartSeeds(Resolve(environment, random_state)) :
       LET r == init(i, environment, scale, random_state, start, rng)
       IN  /\ ctor' = [ctor EXCEPT ![i] = r.ctor]
           /\ ctor_args' = [ctor_args EXCEPT
                              ![i] = [scale |-> scale, random_state |-> random_state]]
           /\ _scale' = [_scale EXCEPT ![i] = r.scale]
           /\ _random_state' = [_random_state EXCEPT ![i] = r.ref]
           /\ _action_spec' = [_action_spec EXCEPT
                                 ![i] = IF r.ctor = "ok"
                                        THEN environment.action_spec ELSE <<>>]
           /\ rng' = r.heap
  /\ UNCHANGED <<environment, call>>

\* ------------------------------------------------------------ step
CorruptsAtZero(scale) == scale >= 0

\* if self._scale > 0
Corrupts(scale) == scale > 0

\* The caller's buffer after the call: its leaves are the arrays that
\* action += ... and np.clip(..., out=action) wrote to.
CallerBufferCopied(action, r) == action

CallerBuffer(action, r) == r.action

\* step(action) of injector i on the heap `heap`.
step(i, action, heap) ==
  IF Corrupts(_scale[i])
  THEN _corrupt_nested_action(action, _action_spec[i], _scale[i],
                              heap[_random_state[i]])
  ELSE [status |-> "ok", action |-> action, g |-> heap[_random_state[i]],
        noise |-> <<>>]

HeapAfter(i, r, heap) == [heap EXCEPT ![_random_state[i]] = r.g]

\* The call record of injector i after step(action) returned r.
Called(i, action, r) ==
  /\ nsteps' = [nsteps EXCEPT ![i] = @ + 1]
  /\ arg' = [arg EXCEPT ![i] = action]
  /\ buf' = [buf EXCEPT ![i] = CallerBuffer(action, r)]
  /\ out' = [out EXCEPT ![i] = r.status]
  /\ delivered' = [delivered EXCEPT
                     ![i] = IF r.status = "ok" THEN Append(@, r.action) ELSE @]
  /\ noise' = [noise EXCEPT ![i] = r.noise]

CanStep(i) == ctor[i] = "ok" /\ nsteps[i] < MaxSteps

\* step with an action in a buffer of its own.
Step(i, action) ==
  /\ CanStep(i)
  /\ \E r \in {step(i, action, rng)} :
       Called(i, action, r) /\ rng' = HeapAfter(i, r, rng)
  /\ UNCHANGED <<environment, obj>>

\* step with the buffer the previous step was given.
StepSameBuffer(i) ==
  /\ CanStep(i)
  /\ nsteps[i] > 0
  /\ \E r \in {step(i, buf[i], rng)} :
       Called(i, buf[i], r) /\ rng' = HeapAfter(i, r, rng)
  /\ UNCHANGED <<environment, obj>>

\* ------------------------------------------------------------ specifications
InitObjects ==
  /\ ctor = [i \in Injectors |-> "none"]
  /\ ctor_args = [i \in Injectors |-> [scale |-> 0, random_state |-> ArgNone]]
  /\ _scale = [i \in Injectors |-> 0]
  /\ _action_spec = [i \in Injectors |-> <<>>]
  /\ _random_state = [i \in Injectors |-> NoRef]
  /\ nsteps = [i \in Injectors |-> 0]
  /\ arg = [i \in Injectors |-> <<>>]
  /\ buf = [i \in Injectors |-> <<>>]
  /\ out = [i \in Injectors |-> "none"]
  /\ delivered = [i \in Injectors |-> <<>>]
  /\ noise = [i \in Injectors |-> <<>>]

\* The RandomState objects that exist before any injector does: the
\* caller's own, and the ones the environment's attributes hold.
Heap0(env) ==
  LET host == {env.task_random, env.random_state} \cap {"task", "env"}
  IN  [id \in {"caller"} \cup host |->
         IF id = "env" THEN RandomState(MaxSeed) ELSE RandomState(0)]

\* One injector around an environment with no task and no random source of
\* its own, for every action specification.
Init ==
  /\ environment \in {Environment(S, FALSE, Absent, Absent) : S \in ActionSpecs}
  /\ rng = Heap0(environment)
  /\ InitObjects

Next ==
  \/ \E scale \in Scales, random_state \in RandomStateArgs :
       Construct(1, scale, random_state)
  \/ \E action \in ActionsFor(environment.action_spec) : Step(1, action)
  \/ StepSameBuffer(1)

Spec == Init /\ [][Next]_vars

\* ---- construction against every kind of environment
AttrValues(id) == {Absent, NotRandomState, id}

Environments(S) ==
  {Environment(S, FALSE, Absent, r) : r \in AttrValues("env")}
  \cup {Environment(S, TRUE, t, r) : t \in AttrValues("task"), r \in AttrValues("env")}

CtorSpec == <<UnitLeaf>>

InitCtor ==
  /\ environment \in Environments(CtorSpec)
  /\ rng = Heap0(environment)
  /\ InitObjects

SpecCtor == InitCtor /\ [][Next]_vars

\* ---- two injectors built by the same call and stepped with the same actions
PairConstruct(scale, random_state) ==
  /\ \A i \in Injectors : ctor[i] = "none"
  /\ \E start1, start2 \in StartSeeds(Resolve(environment, random_state)) :
       LET r1 == init(1, environment, scale, random_state, start1, rng)
           r2 == init(2, environment, scale, random_state, start2, r1.heap)
           r == [i \in Injectors |-> IF i = 1 THEN r1 ELSE r2]
       IN  /\ ctor' = [i \in Injectors |-> r[i].ctor]
           /\ ctor_args' = [i \in Injectors |->
                              [scale |-> scale, random_state |-> random_state]]
           /\ _scale' = [i \in Injectors |-> r[i].scale]
           /\ _random_state' = [i \in Injectors |-> r[i].ref]
           /\ _action_spec' = [i \in Injectors |->
                                 IF r[i].ctor = "ok"
                                 THEN environment.action_spec ELSE <<>>]
           /\ rng' = r2.heap
  /\ UNCHANGED <<environment, call>>

\* Injector 1 steps with a1, then injector 2 with a2.
StepBoth(a1, a2) ==
  \E r1 \in {step(1, a1, rng)} :
    \E heap1 \in {HeapAfter(1, r1, rng)} :
      \E r2 \in {step(2, a2, heap1)} :
        LET a == [i \in Injectors |-> IF i = 1 THEN a1 ELSE a2]
            r == [i \in Injectors |-> IF i = 1 THEN r1 ELSE r2]
        IN  /\ nsteps' = [i \in Injectors |-> nsteps[i] + 1]
            /\ arg' = a
            /\ buf' = [i \in Injectors |-> CallerBuffer(a[i], r[i])]
            /\ out' = [i \in Injectors |-> r[i].status]
            /\ delivered' = [i \in Injectors |->
                               IF r[i].status = "ok"
                               THEN Append(delivered[i], r[i].action)
                               ELSE delivered[i]]
            /\ noise' = [i \in Injectors |-> r[i].noise]
            /\ rng' = HeapAfter(2, r2, heap1)

PairStep(action) ==
  /\ \A i \in Injectors : CanStep(i)
  /\ StepBoth(action, action)
  /\ UNCHANGED <<environment, obj>>

PairStepSameBuffer ==
  /\ \A i \in Injectors : CanStep(i) /\ nsteps[i] > 0
  /\ StepBoth(buf[1], buf[2])
  /\ UNCHANGED <<environment, obj>>

NextPair ==
  \/ \E scale \in Scales, random_state \in RandomStateArgs \ {ArgNone} :
       PairConstruct(scale, random_state)
  \/ \E action \in ActionsFor(environment.action_spec) : PairStep(action)
  \/ PairStepSameBuffer

\* The specifications whose bounded leaves have the full range throughout.
PairSpecs ==
  {S \in ActionSpecs :
     \A k \in 1..Len(S) : \A j \in 1..Size(S[k].maximum) :
       S[k].maximum.data[j] = MaxBound}

InitPair ==
  /\ environment \in {Environment(S, FALSE, Absent, Absent) : S \in PairSpecs}
  /\ rng = Heap0(environment)
  /\ InitObjects

SpecPair == InitPair /\ [][NextPair]_vars

\* ------------------------------------------------------------ properties
Last(seq) == seq[Len(seq)]
Leaves(i) == 1..Len(_action_spec[i])

\* The last call of step on injector i ran with scale > 0 and delivered.
Corrupted(i) == ctor[i] = "ok" /\ _scale[i] > 0 /\ out[i] = "ok" /\ nsteps[i] > 0

\* Element e of leaf k is within the bounds of the spec leaf.
InRange(leaf, spec, e) ==
  At(spec.minimum, e) <= leaf[e] /\ leaf[e] <= At(spec.maximum, e)

\* The action has the leaves of the specification, each of its shape.
Aligned(action, S) ==
  /\ Len(action) = Len(S)
  /\ \A k \in 1..Len(S) : Len(action[k]) = S[k].shape

\* Injector i takes a step in this transition.
Steps(i) == nsteps'[i] = nsteps[i] + 1

\* C1: with scale > 0, every element of every bounded leaf of every action
\* delivered to the wrapped environment lies within the leaf's bounds,
\* whatever the input action was.
C1_ClipInvariant ==
  \A i \in Injectors :
    (ctor[i] = "ok" /\ _scale[i] > 0) =>
      \A n \in 1..Len(delivered[i]) : \A k \in Leaves(i) :
        _action_spec[i][k].bounded =>
          \A e \in 1..Len(delivered[i][n][k]) :
            InRange(delivered[i][n][k], _action_spec[i][k], e)

\* An action with an element above its maximum was given, and delivered.
C1_Witness ==
  /\ Corrupted(1)
  /\ nsteps[1] = MaxSteps
  /\ \E k \in Leaves(1) :
       /\ _action_spec[1][k].bounded
       /\ \E e \in 1..Len(arg[1][k]) :
            /\ ~InRange(arg[1][k], _action_spec[1][k], e)
            /\ InRange(Last(delivered[1])[k], _action_spec[1][k], e)

\* C2: with scale = 0 every step delivers exactly the action given, leaves
\* the caller's buffer as it was and draws nothing from any random source.
C2_ZeroScalePassThrough ==
  [][\A i \in Injectors :
       (ctor[i] = "ok" /\ _scale[i] = 0 /\ Steps(i)) =>
         /\ out'[i] = "ok"
         /\ delivered'[i] = Append(delivered[i], arg'[i])
         /\ buf'[i] = arg'[i]
         /\ rng' = rng]_vars

\* Two steps with scale = 0, the last with an element outside its bounds.
C2_Witness ==
  /\ ctor[1] = "ok" /\ _scale[1] = 0 /\ nsteps[1] = MaxSteps
  /\ Len(delivered[1]) = MaxSteps /\ Last(delivered[1]) = arg[1]
  /\ rng[_random_state[1]].pos = 0
  /\ Aligned(arg[1], _action_spec[1])
  /\ \E k \in Leaves(1) :
       /\ _action_spec[1][k].bounded
       /\ ~InRange(arg[1][k], _action_spec[1][k], 1)

\* C3: with scale > 0, a leaf whose spec leaf is not bounded is delivered as
\* it was given, whatever happens to the bounded leaves beside it.
C3_UnboundedUntouched ==
  \A i \in Injectors :
    Corrupted(i) =>
      \A k \in Leaves(i) :
        ~_action_spec[i][k].bounded =>
          /\ Last(delivered[i])[k] = arg[i][k]
          /\ buf[i][k] = arg[i][k]

\* An unbounded leaf beside a bounded leaf that the step changed.
C3_Witness ==
  /\ Corrupted(1)
  /\ \E k, j \in Leaves(1) :
       /\ ~_action_spec[1][k].bounded
       /\ _action_spec[1][j].bounded
       /\ Last(delivered[1])[j] # arg[1][j]
       /\ Last(delivered[1])[k] = arg[1][k]

\* C4: __init__ with scale < 0 raises ValueError and leaves no injector,
\* whatever random_state is passed; with scale >= 0 it does not raise it.
C4_NegativeScaleRejected ==
  \A i \in Injectors :
    ctor[i] # "none" =>
      /\ ctor_args[i].scale < 0 =>
           (ctor[i] = "ValueError" /\ _random_state[i] = NoRef /\ nsteps[i] = 0)
      /\ ctor_args[i].scale >= 0 => ctor[i] # "ValueError"

\* A negative scale was rejected although a RandomState instance was passed.
C4_Witness ==
  /\ ctor[1] = "ValueError"
  /\ ctor_args[1].scale < 0
  /\ ctor_args[1].random_state.kind = "RandomState"

\* C5: two injectors built with the same int seed and the same scale around
\* the same action specification, and stepped with the same actions, deliver
\* the same actions and end their steps the same way.
C5_Determinism ==
  (/\ \A i \in Injectors : ctor[i] = "ok"
   /\ ctor_args[1] = ctor_args[2]
   /\ ctor_args[1].random_state.kind = "int")
  => /\ delivered[1] = delivered[2]
     /\ out[1] = out[2]
     /\ buf[1] = buf[2]

\* Both injectors, seeded alike, delivered MaxSteps actions, the last one
\* changed by the noise.
C5_Witness ==
  /\ \A i \in Injectors : ctor[i] = "ok" /\ _scale[i] > 0
  /\ ctor_args[1].random_state.kind = "int"
  /\ ctor_args[2].random_state = ctor_args[1].random_state
  /\ _random_state[1] # _random_state[2]
  /\ Len(delivered[1]) = MaxSteps /\ Len(delivered[2]) = MaxSteps
  /\ Last(delivered[1]) # arg[1]
  /\ delivered[1][1] # delivered[1][2]

BoundsFit(spec, n) ==
  /\ BroadcastsTo(spec.minimum.shape, n)
  /\ BroadcastsTo(spec.maximum.shape, n)

C7_NoPartialCorruption ==
  \A i \in Injectors :
    (ctor[i] = "ok" /\ out[i] \in {"StructureMismatch", "ShapeMismatch"})
    => buf[i] = arg[i]

\* C8: where self._random_state comes from.  An int seed gives a new
\* RandomState of that seed; a RandomState instance is held itself; with
\* None, an environment without "task" gets a new RandomState even if it has
\* a random_state of its own, and one with "task" gets task.random if it has
\* one, else the environment's random_state if it has one, else a new
\* RandomState.  A constructed injector holds a RandomState of the heap.
C8_RandomSourceResolution ==
  \A i \in Injectors :
    (ctor[i] # "none" /\ ctor_args[i].scale >= 0) =>
      LET a == ctor_args[i].random_state
          env == environment
          new == ctor[i] = "ok" /\ _random_state[i] = Own(i)
          holds(id) == ctor[i] = "ok" /\ _random_state[i] = id
      IN  /\ a.kind = "int" => (new /\ rng[Own(i)].seed = a.seed)
          /\ a.kind = "RandomState" => holds(a.ref)
          /\ (a.kind = "None" /\ ~env.has_task) => new
          /\ (a.kind = "None" /\ env.has_task /\ env.task_random = "task")
               => holds("task")
          /\ (a.kind = "None" /\ env.has_task /\ env.task_random = Absent
                /\ env.random_state = "env") => holds("env")
          /\ (a.kind = "None" /\ env.has_task /\ env.task_random = Absent
                /\ env.random_state = Absent) => new
          /\ ctor[i] = "ok" => _random_state[i] \in DOMAIN rng

\* With None, the task's random source was preferred to the environment's
\* own, and the injector's draws advanced that very object.
C8_Witness ==
  /\ ctor[1] = "ok" /\ ctor_args[1].random_state.kind = "None"
  /\ environment.has_task
  /\ environment.task_random = "task" /\ environment.random_state = "env"
  /\ _random_state[1] = "task"
  /\ rng["task"].pos > 0 /\ rng["env"].pos = 0

\* The spec leaf has a range for every element: its noise is not 0 anyway.
HasRange(spec) ==
  \A e \in 1..spec.shape : At(spec.minimum, e) < At(spec.maximum, e)

\* C9, as claimed: for every bounded leaf corrupted in a step (a leaf with a
\* range, given with the shape of its spec leaf), as many samples are drawn
\* as the leaf has elements, 0-d bounds included.
C9_OneSamplePerElement ==
  \A i \in Injectors :
    (Corrupted(i) /\ Aligned(arg[i], _action_spec[i])) =>
      \A k \in Leaves(i) :
        (_action_spec[i][k].bounded /\ HasRange(_action_spec[i][k]))
          => Size(noise[i][k]) = Len(arg[i][k])

\* C10: with scale > 0, after a step that delivered, the caller's buffer
\* holds the action that was delivered, so that a step given the same
\* buffer again starts from the corrupted values.
C10_BufferCorruptedInPlace ==
  \A i \in Injectors :
    Corrupted(i) => buf[i] = Last(delivered[i])

\* The second step was given the buffer the first one corrupted (no action
\* a caller writes afresh), and corrupted it further.
C10_Witness ==
  /\ Corrupted(1)
  /\ Len(delivered[1]) = MaxSteps
  /\ arg[1] = delivered[1][MaxSteps - 1]
  /\ arg[1] \notin ActionsFor(_action_spec[1])
  /\ Last(delivered[1]) # arg[1]
  /\ buf[1] = Last(delivered[1])

=============================================================================
